---- MODULE Spec2Model ----
(***************************************************************************)
(* Model of harfbuzz_rs: the callback bridge of src/font_funcs.rs (the     *)
(* FontFuncs trait with its parent-delegating defaults, the hb_callback    *)
(* thunks, the FontFuncsImpl callback table) and subset() of src/subset.rs.*)
(***************************************************************************)
EXTENDS Integers, Sequences, FiniteSets, TLC

VARIABLES
    call,       \* the last thunk invocation made by the engine, with its result
    dq,         \* the last query answered by a FontFuncs default method
    table,      \* the callback table (hb_font_funcs_t behind FontFuncsImpl<T>)
    heap,       \* the boxed closures: closure id -> times destroy_box ran on it
    tq,         \* the last query made through the table
    sub         \* the state of one call of subset()

vars == <<call, dq, table, heap, tq, sub>>

\* ------------------------------------------------------------------ bounds
MaxPos == 2          \* positions handed around lie in -MaxPos..MaxPos
MaxSize == 3         \* largest buffer capacity the engine supplies
MaxNameLen == 3      \* longest glyph name
MaxGlyph == 1        \* glyph ids and point indices lie in 0..MaxGlyph
MaxScale == 3        \* largest font scale
MaxSets == 2         \* per-slot setter calls on one table, besides set_trait_impl
MaxRefs == 2         \* references held on one table at a time
MaxCp == 2           \* codepoints asked of subset() lie in 1..MaxCp
MaxVars == 2         \* most variations passed to subset()

Min(a, b) == IF a < b THEN a ELSE b

\* --------------------------------------------------------- value domains
Pos == -MaxPos..MaxPos
\* bytes of Rust strings: NUL, 'a', 'b'
StrBytes == {0, 97, 98}
\* bytes the engine may hand over: the above and 255, which occurs in no UTF-8 text
RawBytes == StrBytes \cup {255}
\* what the engine's output buffer holds in every byte before the call
Fills == {0, 170}
RECURSIVE SeqsUpTo(_, _)
SeqsUpTo(S, n) ==
    IF n = 0 THEN {<<>>}
    ELSE LET prev == SeqsUpTo(S, n - 1)
         IN  prev \cup {Append(s, b) : s \in {t \in prev : Len(t) = n - 1}, b \in S}

\* Rust Strings (valid UTF-8, interior NUL allowed) of length <= MaxNameLen
Names == SeqsUpTo(StrBytes, MaxNameLen)

\* A closure's outcome: it panics, or returns None, or returns Some(v) / a plain v
Panic == [k |-> "panic", v |-> <<>>]
None == [k |-> "none", v |-> <<>>]
Some(v) == [k |-> "some", v |-> v]

\* ------------------------------------------------ the hb_callback thunks
\* What the body of a thunk (the closure handed to catch_unwind) did: whether it
\* panicked, the value it returned, the out-parameters it wrote (<<>>: none), the
\* name buffer as it left it, whether the user closure ran and on which argument.
Body(panicked, ret, out, buf, invoked, arg) ==
    [panicked |-> panicked, ret |-> ret, out |-> out, buf |-> buf,
     invoked |-> invoked, arg |-> arg]

\* match catch_result { Ok(val) => val, Err(_) => Default::default() }
CatchUnwindNoBarrier(body) ==
    [ret |-> body.ret, out |-> body.out, buf |-> body.buf,
     invoked |-> body.invoked, arg |-> body.arg, unwound |-> body.panicked]

CatchUnwind(body) ==
    [ret |-> IF body.panicked THEN 0 ELSE body.ret,
     out |-> body.out, buf |-> body.buf,
     invoked |-> body.invoked, arg |-> body.arg, unwound |-> FALSE]

\* std::char::from_u32: a Unicode scalar value, or None
IsChar(u) == u >= 0 /\ u <= 1114111 /\ ~(u >= 55296 /\ u <= 57343)

\* closure(&font, font_data, args) followed by a ret_expr of the shape
\* `if let Some(x) = value { *out = x; 1 } else { 0 }`
OptionRet(c, arg) ==
    IF c.k = "panic" THEN Body(TRUE, 0, <<>>, <<>>, TRUE, arg)
    ELSE IF c.k = "some" THEN Body(FALSE, 1, c.v, <<>>, TRUE, arg)
    ELSE Body(FALSE, 0, <<>>, <<>>, TRUE, arg)

\* `None => return 0` in an argument expression: the closure is never called
EarlyReturn == Body(FALSE, 0, <<>>, <<>>, FALSE, <<>>)

\* cl is the user closure as a function from its (decoded) argument to its outcome
rust_get_font_extents_closure(cl) ==
    CatchUnwind(OptionRet(cl[<<>>], <<>>))

rust_get_nominal_glyph_closure(cl, unicode) ==
    CatchUnwind(IF IsChar(unicode) THEN OptionRet(cl[<<unicode>>], <<unicode>>)
                ELSE EarlyReturn)

rust_get_variation_glyph_closure(cl, unicode, variation_selector) ==
    CatchUnwind(IF IsChar(unicode) /\ IsChar(variation_selector)
                THEN OptionRet(cl[<<unicode, variation_selector>>],
                               <<unicode, variation_selector>>)
                ELSE EarlyReturn)

\* return pos: Position => pos
rust_get_glyph_advance_closure(cl, glyph) ==
    LET c == cl[<<glyph>>]
    IN  CatchUnwind(IF c.k = "panic" THEN Body(TRUE, 0, <<>>, <<>>, TRUE, <<glyph>>)
                    ELSE Body(FALSE, c.v[1], <<>>, <<>>, TRUE, <<glyph>>))

rust_get_glyph_origin_closure(cl, glyph) ==
    CatchUnwind(OptionRet(cl[<<glyph>>], <<glyph>>))

rust_get_glyph_extents_closure(cl, glyph) ==
    CatchUnwind(OptionRet(cl[<<glyph>>], <<glyph>>))

rust_get_glyph_contour_point_closure(cl, glyph, point) ==
    CatchUnwind(OptionRet(cl[<<glyph, point>>], <<glyph, point>>))

\* CString::new(string).ok() and as_bytes_with_nul(): None on an interior NUL
CStringNew(string) ==
    IF \E i \in 1..Len(string) : string[i] = 0 THEN None
    ELSE Some(Append(string, 0))

\* <&mut [u8] as io::Write>::write_all on the slice `name` = buf[off+1..]: copies
\* min(len) bytes, moves the slice past them, and fails unless all of data fitted
WriteAll(slice, data) ==
    LET amt == Min(Len(data), Len(slice.buf) - slice.off)
    IN  [buf |-> [i \in 1..Len(slice.buf) |->
                    IF i > slice.off /\ i <= slice.off + amt
                    THEN data[i - slice.off] ELSE slice.buf[i]],
         off |-> slice.off + amt,
         ok |-> amt = Len(data)]

\* the ret_expr of the glyph-name thunk, on the closure's value and the buffer
\* name[0..size] as the engine supplied it
GlyphNameRet(value, buf0, glyph) ==
    LET cstr == IF value.k = "some" THEN CStringNew(value.v) ELSE None
        w == IF cstr.k = "some" THEN WriteAll([buf |-> buf0, off |-> 0], cstr.v)
             ELSE [buf |-> buf0, off |-> 0, ok |-> FALSE]
    IN  IF w.ok THEN Body(FALSE, 1, <<>>, w.buf, TRUE, <<glyph>>)
        \* name[0] = 0 indexes what is left of the slice after write_all
        ELSE IF w.off < Len(w.buf)
             THEN Body(FALSE, 0, <<>>, [w.buf EXCEPT ![w.off + 1] = 0], TRUE, <<glyph>>)
             ELSE Body(TRUE, 0, <<>>, w.buf, TRUE, <<glyph>>)

rust_get_glyph_name_closure(cl, glyph, buf0) ==
    LET c == cl[<<glyph>>]
    IN  CatchUnwind(IF c.k = "panic" THEN Body(TRUE, 0, <<>>, buf0, TRUE, <<glyph>>)
                    ELSE GlyphNameRet(c, buf0, glyph))

\* bytes of s before its first NUL (all of s when it has none)
RECURSIVE UpToNul(_)
UpToNul(s) ==
    IF s = <<>> \/ Head(s) = 0 THEN <<>> ELSE <<Head(s)>> \o UpToNul(Tail(s))

\* to_str().ok() / std::str::from_utf8(..).ok() over the bytes of the model
IsUtf8(s) == \A i \in 1..Len(s) : s[i] # 255

\* the argument expression of the glyph-from-name thunk: mem are the bytes at
\* `name` (a NUL follows them), size the length parameter
DecodeNameFromZero(mem, size) ==
    LET bytes == IF size = -1 THEN Some(UpToNul(mem))
                 ELSE IF size >= 0 THEN Some(SubSeq(mem, 1, size))
                 ELSE None
    IN  IF bytes.k = "some" /\ IsUtf8(bytes.v) THEN bytes ELSE None

DecodeName(mem, size) ==
    LET bytes == IF size = -1 THEN Some(UpToNul(mem))
                 ELSE IF size >= 1 THEN Some(SubSeq(mem, 1, size))
                 ELSE None
    IN  IF bytes.k = "some" /\ IsUtf8(bytes.v) THEN bytes ELSE None

rust_get_glyph_from_name_closure(cl, mem, size) ==
    LET string == DecodeName(mem, size)
    IN  CatchUnwind(IF string.k = "some" THEN OptionRet(cl[string.v], string.v)
                    ELSE EarlyReturn)

\* ---------------------------------------------- the engine calling a thunk
Glyphs == 0..MaxGlyph
\* hb_codepoint_t arguments: 'A', the edges of the surrogate gap, the last scalar
\* value and the first value past it
Codepoints == {65, 55295, 55296, 57343, 57344, 1114111, 1114112}
Chars == {u \in Codepoints : IsChar(u)}

GlyphOutcomes == {Panic, None} \cup {Some(<<g>>) : g \in Glyphs}
AdvanceOutcomes == {Panic} \cup {Some(<<p>>) : p \in Pos}
PointOutcomes == {Panic, None} \cup {Some(<<x, y>>) : x \in Pos, y \in Pos}
FontExtentsOutcomes ==
    {Panic, None} \cup {Some(<<a, d, g>>) : a \in Pos, d \in Pos, g \in Pos}
GlyphExtentsOutcomes ==
    {Panic, None} \cup {Some(<<xb, yb, w, h>>) : xb \in Pos, yb \in Pos, w \in Pos, h \in Pos}
NameOutcomes == {Panic, None} \cup {Some(n) : n \in Names}

\* every argument a closure can be called on
ClosureArgs ==
    {<<>>} \cup {<<u>> : u \in Chars} \cup {<<u, v>> : u \in Chars, v \in Chars}
    \cup {<<g>> : g \in Glyphs} \cup {<<g, i>> : g \in Glyphs, i \in Glyphs} \cup Names

\* a closure whose outcome is c whatever it is called on
Always(c) == [a \in ClosureArgs |-> c]

NoCall == [kind |-> "none", c |-> None, in |-> <<>>, size |-> 0, res |-> CatchUnwind(EarlyReturn)]
Called(kind, c, in, size, res) ==
    [kind |-> kind, c |-> c, in |-> in, size |-> size, res |-> res]

OtherIdleThunk == UNCHANGED <<dq, table, heap, tq, sub>>

CallFontExtents ==
    /\ call.kind = "none"
    /\ \E c \in FontExtentsOutcomes :
         call' = Called("font_extents", c, <<>>, 0, rust_get_font_extents_closure(Always(c)))
    /\ OtherIdleThunk

CallNominalGlyph ==
    /\ call.kind = "none"
    /\ \E c \in GlyphOutcomes, u \in Codepoints :
         call' = Called("nominal_glyph", c, <<u>>, 0,
                        rust_get_nominal_glyph_closure(Always(c), u))
    /\ OtherIdleThunk

CallVariationGlyph ==
    /\ call.kind = "none"
    /\ \E c \in GlyphOutcomes, u \in Codepoints, v \in Codepoints :
         call' = Called("variation_glyph", c, <<u, v>>, 0,
                        rust_get_variation_glyph_closure(Always(c), u, v))
    /\ OtherIdleThunk

CallGlyphAdvance ==
    /\ call.kind = "none"
    /\ \E c \in AdvanceOutcomes, g \in Glyphs :
         call' = Called("glyph_advance", c, <<g>>, 0,
                        rust_get_glyph_advance_closure(Always(c), g))
    /\ OtherIdleThunk

CallGlyphOrigin ==
    /\ call.kind = "none"
    /\ \E c \in PointOutcomes, g \in Glyphs :
         call' = Called("glyph_origin", c, <<g>>, 0,
                        rust_get_glyph_origin_closure(Always(c), g))
    /\ OtherIdleThunk

CallGlyphExtents ==
    /\ call.kind = "none"
    /\ \E c \in GlyphExtentsOutcomes, g \in Glyphs :
         call' = Called("glyph_extents", c, <<g>>, 0,
                        rust_get_glyph_extents_closure(Always(c), g))
    /\ OtherIdleThunk

CallContourPoint ==
    /\ call.kind = "none"
    /\ \E c \in PointOutcomes, g \in Glyphs, i \in Glyphs :
         call' = Called("contour_point", c, <<g, i>>, 0,
                        rust_get_glyph_contour_point_closure(Always(c), g, i))
    /\ OtherIdleThunk

\* the engine supplies a buffer of `size` bytes
CallGlyphName ==
    /\ call.kind = "none"
    /\ \E c \in NameOutcomes, g \in Glyphs, size \in 0..MaxSize, fill \in Fills :
         call' = Called("glyph_name", c, <<g>>, size,
                        rust_get_glyph_name_closure(Always(c), g, [i \in 1..size |-> fill]))
    /\ OtherIdleThunk

\* the engine supplies the bytes mem (followed by a NUL) and a length that is -1,
\* or at most the number of bytes there are
CallGlyphFromName ==
    /\ call.kind = "none"
    /\ \E c \in GlyphOutcomes, mem \in SeqsUpTo(RawBytes, MaxNameLen) :
         \E size \in -2..Len(mem) :
            call' = Called("glyph_from_name", c, mem, size,
                           rust_get_glyph_from_name_closure(Always(c), mem, size))
    /\ OtherIdleThunk

\* ------------------------------------------ Font, as the trait defaults use it
\* A font: its scale, and its parent (has = FALSE: no parent). reply is what the
\* parent's own query (Font::get_font_h_extents, Font::get_glyph_h_advance, ...)
\* answers to the question being delegated.
Scales == {1, 2, MaxScale}
Coords == {-MaxPos, -1, 0, 1, MaxPos}
NoParent == [has |-> FALSE, x_scale |-> 1, y_scale |-> 1, reply |-> None]
Parents(Replies) ==
    {NoParent} \cup [has : {TRUE}, x_scale : Scales, y_scale : Scales, reply : Replies]
Fonts(Replies) == [x_scale : Scales, y_scale : Scales, parent : Parents(Replies)]

\* i64 division of Rust: the quotient rounded toward zero (d > 0)
TruncDiv(n, d) == IF n >= 0 THEN n \div d ELSE -((-n) \div d)

\* Font::parent_scale_x_distance / parent_scale_y_distance: the parent's value times
\* this font's scale over the parent's scale; 0 without a parent
parent_scale_x_distance(font, v) ==
    IF font.parent.has THEN TruncDiv(v * font.x_scale, font.parent.x_scale) ELSE 0

parent_scale_y_distance(font, v) ==
    IF font.parent.has THEN TruncDiv(v * font.y_scale, font.parent.y_scale) ELSE 0

\* Font::parent_scale_position: componentwise
parent_scale_position(font, xy) ==
    <<parent_scale_x_distance(font, xy[1]), parent_scale_y_distance(font, xy[2])>>

\* ----------------------------------- the default methods of trait FontFuncs
\* `font.parent()?.get_x(args)`: None without a parent, else the parent's reply
\* (a Font query never panics: it answers Some or None)
Delegate(font) == IF font.parent.has THEN font.parent.reply ELSE None

FontExtentsScaledByX(font) ==
    LET e == Delegate(font)
    IN  IF e.k = "some"
        THEN Some(<<parent_scale_x_distance(font, e.v[1]),
                    parent_scale_x_distance(font, e.v[2]),
                    parent_scale_x_distance(font, e.v[3])>>)
        ELSE None

get_font_h_extents(font) ==
    LET e == Delegate(font)
    IN  IF e.k = "some"
        THEN Some(<<parent_scale_y_distance(font, e.v[1]),
                    parent_scale_y_distance(font, e.v[2]),
                    parent_scale_y_distance(font, e.v[3])>>)
        ELSE None

get_font_v_extents(font) ==
    LET e == Delegate(font)
    IN  IF e.k = "some"
        THEN Some(<<parent_scale_y_distance(font, e.v[1]),
                    parent_scale_y_distance(font, e.v[2]),
                    parent_scale_y_distance(font, e.v[3])>>)
        ELSE None

NominalGlyphZero(font) == IF font.parent.has THEN font.parent.reply ELSE Some(<<0>>)

get_nominal_glyph(font) == Delegate(font)

get_variation_glyph(font) == Delegate(font)

\* font.parent_scale_x_distance(|parent| parent.get_glyph_h_advance(glyph))
get_glyph_h_advance(font) ==
    Some(<<parent_scale_x_distance(font, IF font.parent.has THEN font.parent.reply.v[1] ELSE 0)>>)

get_glyph_v_advance(font) ==
    Some(<<parent_scale_y_distance(font, IF font.parent.has THEN font.parent.reply.v[1] ELSE 0)>>)

get_glyph_h_origin(font) ==
    LET p == Delegate(font)
    IN  IF p.k = "some" THEN Some(parent_scale_position(font, p.v)) ELSE None

get_glyph_v_origin(font) ==
    LET p == Delegate(font)
    IN  IF p.k = "some" THEN Some(parent_scale_position(font, p.v)) ELSE None

GlyphExtentsWidthByY(font) ==
    LET e == Delegate(font)
    IN  IF e.k = "some"
        THEN Some(<<parent_scale_x_distance(font, e.v[1]),
                    parent_scale_y_distance(font, e.v[2]),
                    parent_scale_y_distance(font, e.v[3]),
                    parent_scale_y_distance(font, e.v[4])>>)
        ELSE None

\* the value is <<x_bearing, y_bearing, width, height>>
get_glyph_extents(font) ==
    LET e == Delegate(font)
    IN  IF e.k = "some"
        THEN Some(<<parent_scale_x_distance(font, e.v[1]),
                    parent_scale_y_distance(font, e.v[2]),
                    parent_scale_x_distance(font, e.v[3]),
                    parent_scale_y_distance(font, e.v[4])>>)
        ELSE None

get_glyph_contour_point(font) ==
    LET p == Delegate(font)
    IN  IF p.k = "some" THEN Some(parent_scale_position(font, p.v)) ELSE None

get_glyph_name(font) == Delegate(font)

get_glyph_from_name(font) == Delegate(font)

\* the thunk has returned and the engine has taken its result
CallReturn ==
    /\ call.kind # "none"
    /\ call' = NoCall
    /\ OtherIdleThunk

\* -------------------------------------- asking a default method of the trait
\* what the parent's own query may answer, per kind of value
GlyphReplies == {None} \cup {Some(<<g>>) : g \in Glyphs}
AdvanceReplies == {Some(<<p>>) : p \in Coords}
PointReplies == {None} \cup {Some(<<x, y>>) : x \in Coords, y \in Coords}
FontExtentsReplies ==
    {None} \cup {Some(<<a, d, g>>) : a \in Coords, d \in Coords, g \in Coords}
GlyphExtentsReplies ==
    {None} \cup {Some(<<xb, yb, w, h>>) :
                     xb \in Coords, yb \in Coords, w \in Coords, h \in Coords}
NameReplies == {None} \cup {Some(n) : n \in Names}

NoQuery == [method |-> "none", font |-> [x_scale |-> 1, y_scale |-> 1, parent |-> NoParent],
            res |-> None]
Asked(method, font, res) == [method |-> method, font |-> font, res |-> res]

OtherIdleDefaults == UNCHANGED <<call, table, heap, tq, sub>>

AskFontHExtents ==
    /\ dq.method = "none"
    /\ \E font \in Fonts(FontExtentsReplies) :
         dq' = Asked("font_h_extents", font, get_font_h_extents(font))
    /\ OtherIdleDefaults

AskFontVExtents ==
    /\ dq.method = "none"
    /\ \E font \in Fonts(FontExtentsReplies) :
         dq' = Asked("font_v_extents", font, get_font_v_extents(font))
    /\ OtherIdleDefaults

AskNominalGlyph ==
    /\ dq.method = "none"
    /\ \E font \in Fonts(GlyphReplies) :
         dq' = Asked("nominal_glyph", font, get_nominal_glyph(font))
    /\ OtherIdleDefaults

AskVariationGlyph ==
    /\ dq.method = "none"
    /\ \E font \in Fonts(GlyphReplies) :
         dq' = Asked("variation_glyph", font, get_variation_glyph(font))
    /\ OtherIdleDefaults

AskGlyphHAdvance ==
    /\ dq.method = "none"
    /\ \E font \in Fonts(AdvanceReplies) :
         dq' = Asked("glyph_h_advance", font, get_glyph_h_advance(font))
    /\ OtherIdleDefaults

AskGlyphVAdvance ==
    /\ dq.method = "none"
    /\ \E font \in Fonts(AdvanceReplies) :
         dq' = Asked("glyph_v_advance", font, get_glyph_v_advance(font))
    /\ OtherIdleDefaults

AskGlyphHOrigin ==
    /\ dq.method = "none"
    /\ \E font \in Fonts(PointReplies) :
         dq' = Asked("glyph_h_origin", font, get_glyph_h_origin(font))
    /\ OtherIdleDefaults

AskGlyphVOrigin ==
    /\ dq.method = "none"
    /\ \E font \in Fonts(PointReplies) :
         dq' = Asked("glyph_v_origin", font, get_glyph_v_origin(font))
    /\ OtherIdleDefaults

AskGlyphExtents ==
    /\ dq.method = "none"
    /\ \E font \in Fonts(GlyphExtentsReplies) :
         dq' = Asked("glyph_extents", font, get_glyph_extents(font))
    /\ OtherIdleDefaults

AskGlyphContourPoint ==
    /\ dq.method = "none"
    /\ \E font \in Fonts(PointReplies) :
         dq' = Asked("glyph_contour_point", font, get_glyph_contour_point(font))
    /\ OtherIdleDefaults

AskGlyphName ==
    /\ dq.method = "none"
    /\ \E font \in Fonts(NameReplies) :
         dq' = Asked("glyph_name", font, get_glyph_name(font))
    /\ OtherIdleDefaults

AskGlyphFromName ==
    /\ dq.method = "none"
    /\ \E font \in Fonts(GlyphReplies) :
         dq' = Asked("glyph_from_name", font, get_glyph_from_name(font))
    /\ OtherIdleDefaults

\* the caller has taken the answer
AskReturn ==
    /\ dq.method # "none"
    /\ dq' = NoQuery
    /\ OtherIdleDefaults

\* ------------------------------------------------------ the callback table
\* the slots of hb_font_funcs_t, in the order set_trait_impl fills them
SlotOrder ==
    <<"font_h_extents", "font_v_extents", "nominal_glyph", "variation_glyph",
      "glyph_h_advance", "glyph_v_advance", "glyph_h_origin", "glyph_v_origin",
      "glyph_extents", "glyph_contour_point", "glyph_name", "glyph_from_name">>
Slots == {SlotOrder[i] : i \in 1..Len(SlotOrder)}
AdvanceSlots == {"glyph_h_advance", "glyph_v_advance"}

\* closure ids: a box per setter call
Ids == 1..(Len(SlotOrder) + MaxSets)

\* a slot: the boxed closure (id 0: none), the thunk installed as its function
\* pointer, and whether a destroy callback came with it
EmptySlot == [id |-> 0, thunk |-> "none", destroy |-> FALSE]
NoTable == [state |-> "none", ref |-> 0, owned |-> FALSE, sets |-> 0,
            slots |-> [s \in Slots |-> EmptySlot]]

\* a box: free (not allocated yet), or the closure it holds (a user closure, or the
\* closure of set_trait_impl that forwards to trait method m), how many times
\* destroy_box ran on it and on which occasion it last did
FreeBox == [kind |-> "free", m |-> "none", released |-> 0, by |-> "none"]
EmptyHeap == [i \in Ids |-> FreeBox]
NextId(h) == CHOOSE i \in Ids : h[i].kind = "free" /\ \A j \in Ids : j < i => h[j].kind # "free"
UserClosure == [kind |-> "user", m |-> "none"]

\* crate::font::destroy_box: Box::from_raw(ptr), dropped
destroy_box(h, id, occasion) ==
    [h EXCEPT ![id].released = @ + 1, ![id].by = occasion]

\* hb_font_funcs_create(): one reference, every slot empty
hb_font_funcs_create ==
    [state |-> "live", ref |-> 1, owned |-> TRUE, sets |-> 0,
     slots |-> [s \in Slots |-> EmptySlot]]

\* hb_font_funcs_set_*_func(ffuncs, func, user_data, destroy): the slot's previous
\* user data is handed to the destroy callback it came with, then the slot is set
hb_font_funcs_set_func(th, slot, entry) ==
    LET old == th.table.slots[slot]
    IN  [table |-> [th.table EXCEPT !.slots[slot] = entry],
         heap |-> IF old.id # 0 /\ old.destroy
                  THEN destroy_box(th.heap, old.id, "overwrite") ELSE th.heap]

\* hb_font_funcs_reference / hb_font_funcs_destroy: the count; at zero every slot's
\* user data is handed to its destroy callback and the table is gone
RECURSIVE DestroyAll(_, _, _)
DestroyAll(h, slots, i) ==
    IF i > Len(SlotOrder) THEN h
    ELSE LET e == slots[SlotOrder[i]]
         IN  DestroyAll(IF e.id # 0 /\ e.destroy THEN destroy_box(h, e.id, "destroy") ELSE h,
                        slots, i + 1)

hb_font_funcs_reference(th) ==
    [table |-> [th.table EXCEPT !.ref = @ + 1], heap |-> th.heap]

hb_font_funcs_destroy(th) ==
    IF th.table.ref > 1
    THEN [table |-> [th.table EXCEPT !.ref = @ - 1, !.owned = FALSE], heap |-> th.heap]
    ELSE [table |-> [th.table EXCEPT !.ref = 0, !.owned = FALSE, !.state = "dead"],
          heap |-> DestroyAll(th.heap, th.table.slots, 1)]

\* which thunk each set_*_func installs
ThunkOf(slot) ==
    CASE slot \in {"font_h_extents", "font_v_extents"} -> "font_extents"
      [] slot \in AdvanceSlots -> "glyph_advance"
      [] slot \in {"glyph_h_origin", "glyph_v_origin"} -> "glyph_origin"
      [] slot = "glyph_contour_point" -> "contour_point"
      [] OTHER -> slot

\* FontFuncsImpl::set_*_func(func): Box::new(func), Box::into_raw, and the native
\* setter with the thunk and Some(destroy_box::<F>)
SetFuncNoDestroy(th, slot, closure) ==
    LET id == NextId(th.heap)
    IN  hb_font_funcs_set_func(
            [table |-> th.table,
             heap |-> [th.heap EXCEPT ![id] = [kind |-> closure.kind, m |-> closure.m,
                                               released |-> 0, by |-> "none"]]],
            slot, [id |-> id, thunk |-> ThunkOf(slot), destroy |-> FALSE])

SetFuncClearsOthers(th, slot, closure) ==
    LET id == NextId(th.heap)
    IN  hb_font_funcs_set_func(
            [table |-> [th.table EXCEPT !.slots = [s \in Slots |->
                            IF s = slot THEN th.table.slots[s] ELSE EmptySlot]],
             heap |-> [th.heap EXCEPT ![id] = [kind |-> closure.kind, m |-> closure.m,
                                               released |-> 0, by |-> "none"]]],
            slot, [id |-> id, thunk |-> ThunkOf(slot), destroy |-> TRUE])

SetFunc(th, slot, closure) ==
    LET id == NextId(th.heap)
    IN  hb_font_funcs_set_func(
            [table |-> th.table,
             heap |-> [th.heap EXCEPT ![id] = [kind |-> closure.kind, m |-> closure.m,
                                               released |-> 0, by |-> "none"]]],
            slot, [id |-> id, thunk |-> ThunkOf(slot), destroy |-> TRUE])

\* the trait method the closure that set_trait_impl puts in a slot forwards to
TraitTargetAdvancesSwapped(slot) ==
    CASE slot = "glyph_h_advance" -> "glyph_v_advance"
      [] slot = "glyph_v_advance" -> "glyph_h_advance"
      [] OTHER -> slot

TraitTarget(slot) == slot

RECURSIVE SetTraitFrom(_, _)
SetTraitFrom(th, i) ==
    IF i > Len(SlotOrder) THEN th
    ELSE SetTraitFrom(SetFunc(th, SlotOrder[i],
                              [kind |-> "trait", m |-> TraitTarget(SlotOrder[i])]), i + 1)

set_trait_impl(th) == SetTraitFrom(th, 1)

\* FontFuncsImpl::new()
New ==
    /\ table.state = "none"
    /\ table' = hb_font_funcs_create
    /\ UNCHANGED <<call, dq, heap, tq, sub>>

\* FontFuncsImpl::from_trait_impl(): new() and set_trait_impl()
FromTraitImpl ==
    /\ table.state = "none"
    /\ LET th == set_trait_impl([table |-> hb_font_funcs_create, heap |-> heap])
       IN  table' = th.table /\ heap' = th.heap
    /\ UNCHANGED <<call, dq, tq, sub>>

\* one of the twelve set_*_func, on the Owned (hence unshared) table
SetSlot ==
    /\ table.state = "live" /\ table.owned /\ table.sets < MaxSets
    /\ \E slot \in Slots :
         LET th == SetFunc([table |-> table, heap |-> heap], slot, UserClosure)
         IN  table' = [th.table EXCEPT !.sets = @ + 1] /\ heap' = th.heap
    /\ UNCHANGED <<call, dq, tq, sub>>

\* Owned<T> turned into Shared<T>: the same reference, no longer mutable
ToShared ==
    /\ table.state = "live" /\ table.owned
    /\ table' = [table EXCEPT !.owned = FALSE]
    /\ UNCHANGED <<call, dq, heap, tq, sub>>

\* Shared::clone, or a Font taking the table: reference()
Reference ==
    /\ table.state = "live" /\ ~table.owned /\ table.ref < MaxRefs
    /\ table' = hb_font_funcs_reference([table |-> table, heap |-> heap]).table
    /\ UNCHANGED <<call, dq, heap, tq, sub>>

\* a handle (Owned or Shared) dropped: dereference()
DropHandle ==
    /\ table.state = "live"
    /\ LET th == hb_font_funcs_destroy([table |-> table, heap |-> heap])
       IN  table' = th.table /\ heap' = th.heap
    /\ UNCHANGED <<call, dq, tq, sub>>

\* ------------------------------------------- queries through the table
\* The boxed closure behind a slot, as a function of its argument. A closure that
\* set_trait_impl made forwards to one method of the implementation T; T is any
\* implementation whose method `method` answers c on the argument arg, and that
\* has no data elsewhere. A user closure answers c.
NoData(method) == IF method \in AdvanceSlots THEN Some(<<0>>) ELSE None

ClosureOf(box, method, arg, c) ==
    IF box.kind = "trait"
    THEN [a \in ClosureArgs |-> IF box.m = method /\ a = arg THEN c ELSE NoData(box.m)]
    ELSE Always(c)

\* the function pointer of a slot, called with the slot's user data
RunThunk(thunk, cl, in, size, buf0) ==
    CASE thunk = "font_extents" -> rust_get_font_extents_closure(cl)
      [] thunk = "nominal_glyph" -> rust_get_nominal_glyph_closure(cl, in[1])
      [] thunk = "variation_glyph" -> rust_get_variation_glyph_closure(cl, in[1], in[2])
      [] thunk = "glyph_advance" -> rust_get_glyph_advance_closure(cl, in[1])
      [] thunk = "glyph_origin" -> rust_get_glyph_origin_closure(cl, in[1])
      [] thunk = "glyph_extents" -> rust_get_glyph_extents_closure(cl, in[1])
      [] thunk = "contour_point" -> rust_get_glyph_contour_point_closure(cl, in[1], in[2])
      [] thunk = "glyph_name" -> rust_get_glyph_name_closure(cl, in[1], buf0)
      [] thunk = "glyph_from_name" -> rust_get_glyph_from_name_closure(cl, in, size)

\* the font of a query that no default method answers: it has no parent
PlainFont == [x_scale |-> 1, y_scale |-> 1, parent |-> NoParent]

\* buf0 is the name buffer as the engine supplied it; font is the font queried
\* and ov the method that the font data's type T overrides; fault is the slot of
\* the last query on this table whose closure panicked ("none": no query has)
NoTQ == [slot |-> "none", arg |-> <<>>, c |-> None, in |-> <<>>, size |-> 0,
         buf0 |-> <<>>, font |-> PlainFont, ov |-> "none",
         res |-> CatchUnwind(EarlyReturn), fault |-> "none"]

\* Query `slot` for the argument arg, which the engine passes as (in, size, buf0),
\* of a table whose closure answers c
QueryFaultClearsSlot(slot, arg, c, in, size, buf0) ==
    /\ table.state = "live" /\ tq.slot = "none"
    /\ table.slots[slot].id # 0
    /\ tq' = [slot |-> slot, arg |-> arg, c |-> c, in |-> in, size |-> size,
              buf0 |-> buf0, font |-> PlainFont, ov |-> slot,
              res |-> RunThunk(table.slots[slot].thunk,
                               ClosureOf(heap[table.slots[slot].id], slot, arg, c),
                               in, size, buf0),
              fault |-> tq.fault]
    /\ table' = IF c = Panic THEN [table EXCEPT !.slots[slot] = EmptySlot] ELSE table
    /\ UNCHANGED <<call, dq, heap, sub>>

Query(slot, arg, c, in, size, buf0) ==
    /\ table.state = "live" /\ tq.slot = "none"
    /\ table.slots[slot].id # 0
    /\ tq' = [slot |-> slot, arg |-> arg, c |-> c, in |-> in, size |-> size,
              buf0 |-> buf0, font |-> PlainFont, ov |-> slot,
              res |-> RunThunk(table.slots[slot].thunk,
                               ClosureOf(heap[table.slots[slot].id], slot, arg, c),
                               in, size, buf0),
              fault |-> tq.fault]
    /\ UNCHANGED <<call, dq, table, heap, sub>>

QueryFontExtents ==
    /\ tq.slot = "none"
    /\ \E slot \in {"font_h_extents", "font_v_extents"}, c \in FontExtentsOutcomes :
           Query(slot, <<>>, c, <<>>, 0, <<>>)

QueryNominalGlyph ==
    /\ tq.slot = "none"
    /\ \E c \in GlyphOutcomes, u \in Chars :
           Query("nominal_glyph", <<u>>, c, <<u>>, 0, <<>>)

QueryVariationGlyph ==
    /\ tq.slot = "none"
    /\ \E c \in GlyphOutcomes, u \in Chars, v \in Chars :
           Query("variation_glyph", <<u, v>>, c, <<u, v>>, 0, <<>>)

QueryGlyphAdvance ==
    /\ tq.slot = "none"
    /\ \E slot \in AdvanceSlots, c \in AdvanceOutcomes, g \in Glyphs :
           Query(slot, <<g>>, c, <<g>>, 0, <<>>)

QueryGlyphOrigin ==
    /\ tq.slot = "none"
    /\ \E slot \in {"glyph_h_origin", "glyph_v_origin"}, c \in PointOutcomes, g \in Glyphs :
           Query(slot, <<g>>, c, <<g>>, 0, <<>>)

QueryGlyphExtents ==
    /\ tq.slot = "none"
    /\ \E c \in GlyphExtentsOutcomes, g \in Glyphs :
           Query("glyph_extents", <<g>>, c, <<g>>, 0, <<>>)

QueryContourPoint ==
    /\ tq.slot = "none"
    /\ \E c \in PointOutcomes, g \in Glyphs, i \in Glyphs :
           Query("glyph_contour_point", <<g, i>>, c, <<g, i>>, 0, <<>>)

QueryGlyphName ==
    /\ tq.slot = "none"
    /\ \E c \in NameOutcomes, g \in Glyphs, size \in 0..MaxSize, fill \in Fills :
           Query("glyph_name", <<g>>, c, <<g>>, size, [i \in 1..size |-> fill])

\* the name is passed null-terminated (length -1) or with its byte length
QueryGlyphFromName ==
    /\ tq.slot = "none"
    /\ \E c \in GlyphOutcomes, name \in Names :
           \E size \in {-1, Len(name)} :
               Query("glyph_from_name", name, c, name, size, <<>>)

\* the thunk returns to the engine; a panic of the closure has been caught
QueryReturn ==
    /\ tq.slot # "none"
    /\ tq' = [NoTQ EXCEPT !.fault = IF tq.res.invoked /\ tq.c = Panic
                                     THEN tq.slot ELSE tq.fault]
    /\ UNCHANGED <<call, dq, table, heap, sub>>

\* ------------------------------- queries of methods left at their default
\* the default method of the trait behind each slot
DefaultOf(method, font) ==
    CASE method = "font_h_extents" -> get_font_h_extents(font)
      [] method = "font_v_extents" -> get_font_v_extents(font)
      [] method = "nominal_glyph" -> get_nominal_glyph(font)
      [] method = "variation_glyph" -> get_variation_glyph(font)
      [] method = "glyph_h_advance" -> get_glyph_h_advance(font)
      [] method = "glyph_v_advance" -> get_glyph_v_advance(font)
      [] method = "glyph_h_origin" -> get_glyph_h_origin(font)
      [] method = "glyph_v_origin" -> get_glyph_v_origin(font)
      [] method = "glyph_extents" -> get_glyph_extents(font)
      [] method = "glyph_contour_point" -> get_glyph_contour_point(font)
      [] method = "glyph_name" -> get_glyph_name(font)
      [] method = "glyph_from_name" -> get_glyph_from_name(font)

\* The closure that set_trait_impl put in a slot, called for a font whose data is
\* of a type T that overrides method ov (answering c) and leaves the other
\* methods at their defaults.
TraitClosure(box, font, ov, c) ==
    Always(IF box.m = ov THEN c ELSE DefaultOf(box.m, font))

\* what T's overriding advance method answers
Overridden == Some(<<MaxPos>>)

\* what the parent answers to the question a slot delegates: a coordinate is
\* negative or positive, a name fits the buffer of the query
QueryCoords == {-1, MaxPos}
QueryReplies(slot) ==
    CASE slot \in {"font_h_extents", "font_v_extents"} ->
            {None} \cup {Some(<<a, d, MaxPos>>) : a \in QueryCoords, d \in QueryCoords}
      [] slot \in {"nominal_glyph", "variation_glyph", "glyph_from_name"} -> GlyphReplies
      [] slot \in AdvanceSlots -> {Some(<<p>>) : p \in QueryCoords}
      [] slot \in {"glyph_h_origin", "glyph_v_origin", "glyph_contour_point"} ->
            {None} \cup {Some(<<x, y>>) : x \in QueryCoords, y \in QueryCoords}
      [] slot = "glyph_extents" ->
            {None} \cup {Some(<<xb, yb, MaxPos, -MaxPos>>) :
                             xb \in QueryCoords, yb \in QueryCoords}
      [] slot = "glyph_name" -> {None, Some(<<97>>), Some(<<97, 98>>)}

\* the fonts queried: one without a parent, and those of scale (2, 1) under a
\* parent of scale (1, 2)
QueryFonts(slot) ==
    {PlainFont} \cup
    {[x_scale |-> 2, y_scale |-> 1,
      parent |-> [has |-> TRUE, x_scale |-> 1, y_scale |-> 2, reply |-> r]] :
        r \in QueryReplies(slot)}

\* the arguments the engine passes with the query of a slot
SlotInput(slot) ==
    CASE slot \in {"font_h_extents", "font_v_extents"} ->
            [arg |-> <<>>, in |-> <<>>, size |-> 0, buf0 |-> <<>>]
      [] slot = "nominal_glyph" ->
            [arg |-> <<65>>, in |-> <<65>>, size |-> 0, buf0 |-> <<>>]
      [] slot = "variation_glyph" ->
            [arg |-> <<65, 57344>>, in |-> <<65, 57344>>, size |-> 0, buf0 |-> <<>>]
      [] slot = "glyph_contour_point" ->
            [arg |-> <<MaxGlyph, 0>>, in |-> <<MaxGlyph, 0>>, size |-> 0, buf0 |-> <<>>]
      [] slot = "glyph_name" ->
            [arg |-> <<MaxGlyph>>, in |-> <<MaxGlyph>>, size |-> MaxSize,
             buf0 |-> [i \in 1..MaxSize |-> 170]]
      [] slot = "glyph_from_name" ->
            [arg |-> <<97>>, in |-> <<97>>, size |-> -1, buf0 |-> <<>>]
      [] OTHER ->
            [arg |-> <<MaxGlyph>>, in |-> <<MaxGlyph>>, size |-> 0, buf0 |-> <<>>]

\* The engine queries, for some font, a slot that holds a closure of
\* set_trait_impl; the font data's type overrides one of the advances and not the
\* method behind this slot.
QueryDefault ==
    /\ table.state = "live" /\ tq.slot = "none"
    /\ \E slot \in Slots, ov \in AdvanceSlots :
         /\ slot # ov
         /\ table.slots[slot].id # 0
         /\ heap[table.slots[slot].id].kind = "trait"
         /\ \E font \in QueryFonts(slot) :
              LET i == SlotInput(slot)
              IN  tq' = [slot |-> slot, arg |-> i.arg, c |-> Overridden,
                         in |-> i.in, size |-> i.size, buf0 |-> i.buf0,
                         font |-> font, ov |-> ov,
                         res |-> RunThunk(table.slots[slot].thunk,
                                          TraitClosure(heap[table.slots[slot].id],
                                                       font, ov, Overridden),
                                          i.in, i.size, i.buf0),
                         fault |-> tq.fault]
    /\ UNCHANGED <<call, dq, table, heap, sub>>

\* ----------------------------------------------------------------- subset()
\* axis tags: two that faces have, one that no face has
Tags == {"wght", "wdth", "slnt"}
AxisLists ==
    {<<>>, <<[tag |-> "wght", default |-> 0]>>, <<[tag |-> "wdth", default |-> 0]>>,
     <<[tag |-> "wght", default |-> 0], [tag |-> "wdth", default |-> 0]>>}
\* a source face: its variation axes, and its character map (codepoint c is
\* mapped to glyph c + shift)
Faces == [axes : AxisLists, shift : {0, 1}]
CMap(face, c) == c + face.shift
VariationSeqs == SeqsUpTo([tag : Tags, value : {1, 2}], MaxVars)

\* set_variations_lookup: a later variation of a tag replaces an earlier one
Lookup(variations) ==
    [t \in {variations[i].tag : i \in 1..Len(variations)} |->
        LET last == CHOOSE i \in 1..Len(variations) :
                        /\ variations[i].tag = t
                        /\ \A j \in 1..Len(variations) : variations[j].tag = t => j <= i
        IN  variations[last].value]

\* the axes of the face, as the two calls of hb_ot_var_get_axis_infos give them
AxisInfos(face) == face.axes

\* "Pin all axes": one call of hb_subset_input_pin_axis_location or of
\* hb_subset_input_pin_axis_to_default per axis, in the order of the axes
PinAxesSuppliedOnly(axes, lookup) ==
    LET supplied == SelectSeq(axes, LAMBDA a : a.tag \in DOMAIN lookup)
    IN  [i \in 1..Len(supplied) |->
            [tag |-> supplied[i].tag, to |-> "location", value |-> lookup[supplied[i].tag]]]

PinAxes(axes, lookup) ==
    [i \in 1..Len(axes) |->
        IF axes[i].tag \in DOMAIN lookup
        THEN [tag |-> axes[i].tag, to |-> "location", value |-> lookup[axes[i].tag]]
        ELSE [tag |-> axes[i].tag, to |-> "default", value |-> axes[i].default]]

\* the flags of lines 26-29
SubsetFlags == {"RETAIN_GIDS", "NAME_LEGACY", "GLYPH_NAMES", "NO_PRUNE_UNICODE_RANGES"}

IdleSub ==
    [pc |-> "idle", codepoints |-> {}, variations |-> <<>>,
     face |-> [axes |-> <<>>, shift |-> 0], lookup |-> <<>>,
     input |-> "none", flags |-> {}, glyph_set |-> {}, pins |-> <<>>,
     out_face |-> "none", blob |-> "none", used_null |-> {},
     released |-> {}, result |-> "none"]

OtherIdleSubset == UNCHANGED <<call, dq, table, heap, tq>>

\* lines 11-21: the lookup is built and hb_subset_input_create_or_fail() called,
\* which gives a configuration object or null
SubsetBegin ==
    /\ sub.pc = "idle"
    /\ \E cps \in SUBSET (1..MaxCp), vs \in VariationSeqs, face \in Faces,
          input \in {"live", "null"} :
         sub' = [sub EXCEPT !.pc = "created", !.codepoints = cps, !.variations = vs,
                            !.face = face, !.lookup = Lookup(vs), !.input = input]
    /\ OtherIdleSubset

\* lines 23-58: flags, the glyph set, the pins. On a null configuration object the
\* native setters dereference null: the call crashes, or goes on with no effect.
SubsetConfigure ==
    /\ sub.pc = "created"
    /\ IF sub.input = "live"
       THEN sub' = [sub EXCEPT !.pc = "configured",
                               !.flags = SubsetFlags,
                               !.glyph_set = {c : c \in sub.codepoints},
                               !.pins = PinAxes(AxisInfos(sub.face), sub.lookup)]
       ELSE \E pc \in {"configured", "crashed"} :
               sub' = [sub EXCEPT !.pc = pc, !.used_null = @ \cup {"input"}]
    /\ OtherIdleSubset

\* line 60: hb_subset_or_fail gives a new face, or null when it cannot subset;
\* without a configuration object it gives null or the empty face
SubsetInvoke ==
    /\ sub.pc = "configured"
    /\ \E f \in IF sub.input = "live" THEN {"live", "null"} ELSE {"null", "empty"} :
         sub' = [sub EXCEPT !.pc = "subsetted", !.out_face = f]
    /\ OtherIdleSubset

\* lines 61-62: hb_face_reference_blob(raw_subset_font_face) and Blob::from_raw.
\* On a null face the native call dereferences null: it crashes, or yields the
\* empty blob.
SubsetBlob ==
    /\ sub.pc = "subsetted"
    /\ IF sub.out_face # "null"
       THEN sub' = [sub EXCEPT !.pc = "blobbed",
                               !.blob = IF sub.out_face = "live" THEN "subset" ELSE "empty"]
       ELSE \E pc \in {"blobbed", "crashed"} :
               sub' = [sub EXCEPT !.pc = pc, !.used_null = @ \cup {"face"},
                                  !.blob = IF pc = "blobbed" THEN "empty" ELSE "none"]
    /\ OtherIdleSubset

\* lines 64-68: hb_subset_input_destroy(input), blob.to_vec() returned, and the
\* Blob dropped on the way out
SubsetFinish ==
    /\ sub.pc = "blobbed"
    /\ sub' = [sub EXCEPT !.pc = "done",
                          !.input = IF sub.input = "live" THEN "destroyed" ELSE sub.input,
                          !.released = (IF sub.input = "live" THEN {"input"} ELSE {})
                                           \cup {"blob"},
                          !.result = IF sub.blob = "subset" THEN "bytes" ELSE "no bytes"]
    /\ OtherIdleSubset

\* ------------------------------------------------------------ specifications

Init ==
    /\ call = NoCall
    /\ dq = NoQuery
    /\ table = NoTable
    /\ heap = EmptyHeap
    /\ tq = NoTQ
    /\ sub = IdleSub

\* the engine calling the thunks
NextThunk ==
    \/ CallFontExtents
    \/ CallNominalGlyph
    \/ CallVariationGlyph
    \/ CallGlyphAdvance
    \/ CallGlyphOrigin
    \/ CallGlyphExtents
    \/ CallContourPoint
    \/ CallGlyphName
    \/ CallGlyphFromName
    \/ CallReturn

SpecThunk == Init /\ [][NextThunk]_vars

\* the default methods of the trait, on every font
NextDefaults ==
    \/ AskFontHExtents
    \/ AskFontVExtents
    \/ AskNominalGlyph
    \/ AskVariationGlyph
    \/ AskGlyphHAdvance
    \/ AskGlyphVAdvance
    \/ AskGlyphHOrigin
    \/ AskGlyphVOrigin
    \/ AskGlyphExtents
    \/ AskGlyphContourPoint
    \/ AskGlyphName
    \/ AskGlyphFromName
    \/ AskReturn

SpecDefaults == Init /\ [][NextDefaults]_vars

\* the life of one callback table
NextTable ==
    \/ New
    \/ FromTraitImpl
    \/ SetSlot
    \/ ToShared
    \/ Reference
    \/ DropHandle

SpecTable == Init /\ [][NextTable]_vars

\* a table made by from_trait_impl, queried by the engine
NextBridge ==
    \/ FromTraitImpl
    \/ QueryFontExtents
    \/ QueryNominalGlyph
    \/ QueryVariationGlyph
    \/ QueryGlyphAdvance
    \/ QueryGlyphOrigin
    \/ QueryGlyphExtents
    \/ QueryContourPoint
    \/ QueryGlyphName
    \/ QueryGlyphFromName
    \/ QueryReturn

SpecBridge == Init /\ [][NextBridge]_vars

\* a table whose slots are set one by one, queried on methods left at
\* their default
NextSlots ==
    \/ New
    \/ FromTraitImpl
    \/ SetSlot
    \/ QueryDefault
    \/ QueryReturn

SpecSlots == Init /\ [][NextSlots]_vars

\* one call of subset()
NextSubset ==
    \/ SubsetBegin
    \/ SubsetConfigure
    \/ SubsetInvoke
    \/ SubsetBlob
    \/ SubsetFinish

SpecSubset == Init /\ [][NextSubset]_vars

\* ------------------------------------------------------------------- claims
\* C1: whenever the user closure panics inside a thunk, the panic does not leave
\* the thunk and the thunk returns 0, whatever the kind of thunk and its input.
C1_PanicContained ==
    (call.kind # "none" /\ call.res.invoked /\ call.c = Panic)
        => (~call.res.unwound /\ call.res.ret = 0)

C1_Witness ==
    /\ call.kind = "glyph_advance" /\ call.c = Panic
    /\ call.res.invoked /\ call.res.ret = 0 /\ ~call.res.unwound

\* C2: after the glyph-name thunk returns (the closure did not panic) the buffer
\* of `size` bytes holds a null-terminated string: the name and a 0 byte with
\* return value 1 when the name has no 0 byte and fits with its terminator,
\* otherwise return value 0 and a 0 in byte 0 of the buffer.
NameFits(c, size) ==
    /\ c.k = "some"
    /\ \A i \in 1..Len(c.v) : c.v[i] # 0
    /\ Len(c.v) + 1 <= size

C2_NameBufferTerminated ==
    (call.kind = "glyph_name" /\ call.c # Panic) =>
        /\ Len(call.res.buf) = call.size
        /\ IF NameFits(call.c, call.size)
           THEN /\ call.res.ret = 1
                /\ SubSeq(call.res.buf, 1, Len(call.c.v) + 1) = Append(call.c.v, 0)
           ELSE /\ call.res.ret = 0
                /\ call.size >= 1 => call.res.buf[1] = 0

\* C5: every closure ever installed in a slot is released exactly once: it is
\* unreleased as long as it is the content of a slot of the live table, and has
\* been released once (at the overwrite of its slot, or when the reference count
\* reached zero) from then on.
IsCurrent(id) == table.state = "live" /\ \E s \in Slots : table.slots[s].id = id

C5_ReleasedExactlyOnce ==
    \A id \in Ids :
        heap[id].kind # "free" =>
            IF IsCurrent(id)
            THEN heap[id].released = 0
            ELSE /\ heap[id].released = 1
                 /\ heap[id].by = "destroy" => table.state = "dead"

C5_Witness ==
    /\ table.state = "dead"
    /\ \E i \in Ids, j \in Ids :
         /\ heap[i].by = "overwrite" /\ heap[i].released = 1
         /\ heap[j].by = "destroy" /\ heap[j].released = 1

\* C6: a font without a parent gets "no data" from every default method: None
\* from the Option-returning ones, 0 from the two advances.
C6_NoParentNoData ==
    (dq.method # "none" /\ ~dq.font.parent.has) =>
        dq.res = IF dq.method \in AdvanceSlots THEN Some(<<0>>) ELSE None

C6_Witness ==
    /\ dq.method = "glyph_v_advance" /\ ~dq.font.parent.has
    /\ dq.res = Some(<<0>>)

\* v times scale/parent_scale, as r: exact when that is an integer, and in any
\* case off by less than one unit and not away from zero
ScaledOnce(r, v, scale, parent_scale) ==
    /\ (v * scale) % parent_scale = 0 => r * parent_scale = v * scale
    /\ IF v >= 0
       THEN r * parent_scale <= v * scale /\ v * scale < (r + 1) * parent_scale
       ELSE r * parent_scale >= v * scale /\ v * scale > (r - 1) * parent_scale

\* C7: with a parent that reports font extents (A, D, G), the default
\* get_font_h_extents and get_font_v_extents return A, D and G each multiplied
\* once by y_scale / parent.y_scale, exactly when the product is an integer.
C7_FontExtentsScaled ==
    (/\ dq.method \in {"font_h_extents", "font_v_extents"}
     /\ dq.font.parent.has /\ dq.font.parent.reply.k = "some") =>
        /\ dq.res.k = "some"
        /\ \A i \in 1..3 :
             ScaledOnce(dq.res.v[i], dq.font.parent.reply.v[i],
                        dq.font.y_scale, dq.font.parent.y_scale)

C7_Witness ==
    /\ dq.method = "font_h_extents" /\ dq.font.parent.has
    /\ dq.font.y_scale = 2 /\ dq.font.parent.y_scale = 1
    /\ dq.font.x_scale = 1 /\ dq.font.parent.x_scale = 2
    /\ dq.font.parent.reply = Some(<<1, -1, 0>>)
    /\ dq.res = Some(<<2, -2, 0>>)

\* C8: the default glyph queries rescale the parent's value per axis: x quantities
\* (h advance, x_bearing, width, x of origins and contour points) by
\* x_scale / parent.x_scale, y quantities (v advance, y_bearing, height, y of
\* origins and contour points) by y_scale / parent.y_scale.
AxesOf(method) ==
    CASE method = "glyph_h_advance" -> <<"x">>
      [] method = "glyph_v_advance" -> <<"y">>
      [] method = "glyph_extents" -> <<"x", "y", "x", "y">>
      [] OTHER -> <<"x", "y">>

C8_Methods ==
    {"glyph_h_advance", "glyph_v_advance", "glyph_h_origin", "glyph_v_origin",
     "glyph_extents", "glyph_contour_point"}

C8_PerAxisScaling ==
    (/\ dq.method \in C8_Methods
     /\ dq.font.parent.has /\ dq.font.parent.reply.k = "some") =>
        /\ dq.res.k = "some"
        /\ Len(dq.res.v) = Len(AxesOf(dq.method))
        /\ \A i \in 1..Len(AxesOf(dq.method)) :
             IF AxesOf(dq.method)[i] = "x"
             THEN ScaledOnce(dq.res.v[i], dq.font.parent.reply.v[i],
                             dq.font.x_scale, dq.font.parent.x_scale)
             ELSE ScaledOnce(dq.res.v[i], dq.font.parent.reply.v[i],
                             dq.font.y_scale, dq.font.parent.y_scale)

C8_Witness ==
    /\ dq.method = "glyph_extents" /\ dq.font.parent.has
    /\ dq.font.x_scale = 2 /\ dq.font.parent.x_scale = 1
    /\ dq.font.y_scale = 1 /\ dq.font.parent.y_scale = 2
    /\ dq.font.parent.reply = Some(<<1, 2, -1, -2>>)
    /\ dq.res = Some(<<2, 1, -2, -1>>)

\* What a query through the table reports, read back from the thunk's return
\* value, out-parameters and name buffer.
Reported(q) ==
    CASE q.slot \in AdvanceSlots -> Some(<<q.res.ret>>)
      [] q.slot = "glyph_name" ->
            IF q.res.ret # 0 THEN Some(UpToNul(q.res.buf)) ELSE None
      [] OTHER -> IF q.res.ret # 0 THEN Some(q.res.out) ELSE None

\* C10 as stated: every query through a table built by from_trait_impl reports
\* what the method of T returns on the same argument, for glyph names of any
\* content and length.
C10_TableEqualsTrait ==
    (tq.slot # "none" /\ tq.c # Panic) => Reported(tq) = tq.c

\* the cases the thunks' conventions can carry: a returned glyph name has no 0
\* byte and fits the engine's buffer with its terminator; a name looked up is not
\* empty, and has no 0 byte when it is passed null-terminated
Carried(q) ==
    /\ (q.slot = "glyph_name" /\ q.c.k = "some") => NameFits(q.c, q.size)
    /\ q.slot = "glyph_from_name" =>
          /\ Len(q.arg) >= 1
          /\ q.size = -1 => \A i \in 1..Len(q.arg) : q.arg[i] # 0

\* C10 as amended: in those cases the query reports what the method of T returns,
\* and the method has been called on exactly the argument of the query.
C10_TableEqualsTraitCarried ==
    (tq.slot # "none" /\ tq.c # Panic /\ Carried(tq)) =>
        /\ Reported(tq) = tq.c
        /\ tq.res.invoked /\ tq.res.arg = tq.arg

C10_Witness ==
    /\ tq.slot = "glyph_name" /\ tq.c = Some(<<97, 98>>) /\ tq.size = 3
    /\ tq.res.ret = 1 /\ tq.res.buf = <<97, 98, 0>>

\* C3: when the configuration object cannot be created or the native subsetting
\* yields no face, subset() does not use the missing handle and ends with an
\* explicit error, not with a byte sequence.
C3_FailureIsExplicit ==
    /\ "face" \notin sub.used_null
    /\ (sub.pc = "done" /\ (sub.input = "null" \/ sub.out_face = "null")) =>
          sub.result = "error"

\* C4: the glyph set handed to the native subsetting is the set of glyphs the face
\* maps the requested codepoints to, apart from .notdef (glyph 0).
C4_RetainedAreMapped ==
    (sub.pc = "configured" /\ sub.input = "live") =>
        LET mapped == {CMap(sub.face, c) : c \in sub.codepoints}
        IN  mapped \subseteq sub.glyph_set /\ sub.glyph_set \subseteq mapped \cup {0}

\* C9: when the native subsetting is invoked on the configuration object, each
\* axis of the face has been pinned once, to a value supplied for its tag if there
\* is one and to its default otherwise, and nothing else has been pinned.
SuppliedFor(t) ==
    {sub.variations[i].value : i \in {j \in 1..Len(sub.variations) : sub.variations[j].tag = t}}

C9_EveryAxisPinnedOnce ==
    (sub.pc = "configured" /\ sub.input = "live") =>
        /\ Len(sub.pins) = Len(sub.face.axes)
        /\ \A i \in 1..Len(sub.face.axes) :
             LET a == sub.face.axes[i]
             IN  /\ sub.pins[i].tag = a.tag
                 /\ IF SuppliedFor(a.tag) # {}
                    THEN sub.pins[i].to = "location" /\ sub.pins[i].value \in SuppliedFor(a.tag)
                    ELSE sub.pins[i].to = "default" /\ sub.pins[i].value = a.default

C9_Witness ==
    /\ sub.pc = "configured" /\ sub.input = "live"
    /\ sub.variations = <<[tag |-> "slnt", value |-> 1], [tag |-> "wght", value |-> 2]>>
    /\ Len(sub.face.axes) = 2
    /\ sub.pins = <<[tag |-> "wght", to |-> "location", value |-> 2],
                    [tag |-> "wdth", to |-> "default", value |-> 0]>>

\* What the query q returns on the table as from_trait_impl built it, no query
\* having been made on it.
C11_Unfaulted(q) ==
    LET th == set_trait_impl([table |-> hb_font_funcs_create, heap |-> EmptyHeap])
        e == th.table.slots[q.slot]
    IN  RunThunk(ThunkOf(q.slot), ClosureOf(th.heap[e.id], q.slot, q.arg, q.c),
                 q.in, q.size, q.buf0)

\* C11: a query whose closure panics leaves the callback table unchanged: no
\* query, faulting or not, changes the table or its boxed closures, and every
\* query made after a faulting one, on the same slot or on another, returns what
\* it returns on a table on which no query has been made.
C11_FaultLeavesTableUnchanged ==
    /\ []((tq.slot # "none" /\ tq.fault # "none") => tq.res = C11_Unfaulted(tq))
    /\ [][tq'.slot # tq.slot => (table' = table /\ heap' = heap)]_vars

\* after a faulting glyph_h_advance query: a query of another slot, or a query of the
\* same slot whose closure does not panic
C11_Witness ==
    /\ tq.fault = "glyph_h_advance"
    /\ tq.slot \in {"glyph_h_advance", "glyph_extents"}
    /\ tq.c.k = "some" /\ tq.res.invoked /\ tq.res.ret # 0

\* the slots whose content a step changes
C12_Changed == {s \in Slots : table'.slots[s] # table.slots[s]}

\* C12: a per-slot setter changes the slot it sets and no other slot, nor the
\* closure of another slot; and, whether or not slots have been set on the table
\* and whichever method the font data overrides, the query of a slot whose method
\* is left at its default reports what the default parent-delegating rule gives
\* for the font.
C12_OtherSlotsKeepDefault ==
    /\ []((tq.slot # "none" /\ tq.ov # tq.slot) =>
             Reported(tq) = DefaultOf(tq.slot, tq.font))
    /\ [][table'.sets = table.sets + 1 =>
             /\ Cardinality(C12_Changed) = 1
             /\ \A s \in Slots \ C12_Changed :
                  table.slots[s].id # 0 =>
                      heap'[table.slots[s].id] = heap[table.slots[s].id]]_vars

\* after glyph_h_advance has been set on a table built by from_trait_impl, the
\* glyph extents of a font with a parent are the parent's, rescaled per axis
C12_Witness ==
    /\ table.state = "live" /\ table.sets = 1
    /\ table.slots["glyph_h_advance"].id # 0
    /\ heap[table.slots["glyph_h_advance"].id].kind = "user"
    /\ tq.slot = "glyph_extents" /\ tq.ov = "glyph_v_advance"
    /\ tq.font.parent.has /\ tq.font.parent.reply = Some(<<MaxPos, MaxPos, MaxPos, -MaxPos>>)
    /\ tq.res.ret = 1
    /\ tq.res.out = <<2 * MaxPos, MaxPos \div 2, 2 * MaxPos, -(MaxPos \div 2)>>

\* the number of bytes at the head of mem that precede its first 0 byte
C13_StrLen(mem) ==
    IF \E i \in 1..Len(mem) : mem[i] = 0
    THEN (CHOOSE i \in 1..Len(mem) : mem[i] = 0 /\ \A j \in 1..(i - 1) : mem[j] # 0) - 1
    ELSE Len(mem)

\* C13: the glyph-from-name thunk reads the name up to its null terminator when
\* the length is -1 and exactly `size` bytes when the length is >= 1; when these
\* bytes are UTF-8 the closure is called on exactly them, and the thunk returns 1
\* with the glyph the closure gives, or 0 when it gives none; for every other
\* length, and for bytes that are not UTF-8, the thunk returns 0 and the closure
\* has not been called.
C13_NameDecodedByLength ==
    call.kind = "glyph_from_name" =>
        LET read == IF call.size = -1 THEN SubSeq(call.in, 1, C13_StrLen(call.in))
                    ELSE SubSeq(call.in, 1, call.size)
        IN  IF /\ call.size = -1 \/ call.size >= 1
               /\ \A i \in 1..Len(read) : read[i] \in StrBytes
            THEN /\ call.res.invoked /\ call.res.arg = read
                 /\ call.res.ret = IF call.c.k = "some" THEN 1 ELSE 0
                 /\ call.c.k = "some" => call.res.out = call.c.v
            ELSE ~call.res.invoked /\ call.res.ret = 0 /\ call.res.out = <<>>

\* a null-terminated name followed in memory by a byte that is not UTF-8: the
\* closure gets the name, the byte past the terminator is not read
C13_Witness ==
    /\ call.kind = "glyph_from_name" /\ call.size = -1
    /\ call.in = <<97, 0, 255>> /\ call.c = Some(<<MaxGlyph>>)
    /\ call.res.invoked /\ call.res.arg = <<97>> /\ call.res.ret = 1

\* C14: when subset() returns, every native handle the call created has been
\* released: the configuration object, the face that the native subsetting
\* produced, and the blob taken from that face.
C14_HandlesReleased ==
    sub.pc = "done" =>
        /\ sub.input = "destroyed" => "input" \in sub.released
        /\ sub.out_face = "live" => "face" \in sub.released
        /\ sub.blob # "none" => "blob" \in sub.released

====
